---------------------------- MODULE Spec2Model ----------------------------
(* Smart Travel Assistant (src/smart_app.py): the provider list, the       *)
(* booking list, their two JSON documents on disk, and the operations      *)
(* that read and change them, both the module's functions and the console  *)
(* flows that call them.                                                   *)
(*                                                                         *)
(* Conventions.  Python's None is the empty set and a present optional     *)
(* value v is {v}.  Text the code inspects character by character (service *)
(* labels, languages, console input) is a sequence of one-character        *)
(* strings; text it only stores (ids, names, comments) is a string.        *)
(* Ratings and scores are floats with at most two decimals in the code and *)
(* integers counting hundredths here (4.8 is 480).  A timestamp is the     *)
(* tick of the clock it was formatted from, with the "Z" suffix recorded.  *)
EXTENDS Integers, Sequences, FiniteSets, TLC

VARIABLES providers, bookings, disk, now, call, steps

vars == <<providers, bookings, disk, now, call, steps>>

(* ------------------------------ bounds -------------------------------- *)

\* Operations that change the stores or the clock, per run of the model.
MaxSteps == 2

(* --------------------------- Python values ---------------------------- *)

None == {}

Some(v) == {v}

The(o) == CHOOSE v \in o : TRUE

\* a list given by its elements, built once
List(f) == SubSeq(f, 1, Len(f))

Min(a, b) == IF a <= b THEN a ELSE b

Abs(a) == IF a >= 0 THEN a ELSE -a

(* ------------------------------ str ----------------------------------- *)

\* str.lower() and str.upper() on the one-character strings they change
ToLower ==
    ("A" :> "a") @@ ("B" :> "b") @@ ("C" :> "c") @@ ("D" :> "d") @@ ("E" :> "e")
    @@ ("F" :> "f") @@ ("G" :> "g") @@ ("H" :> "h") @@ ("I" :> "i") @@ ("J" :> "j")
    @@ ("K" :> "k") @@ ("L" :> "l") @@ ("M" :> "m") @@ ("N" :> "n") @@ ("O" :> "o")
    @@ ("P" :> "p") @@ ("Q" :> "q") @@ ("R" :> "r") @@ ("S" :> "s") @@ ("T" :> "t")
    @@ ("U" :> "u") @@ ("V" :> "v") @@ ("W" :> "w") @@ ("X" :> "x") @@ ("Y" :> "y")
    @@ ("Z" :> "z")

ToUpper ==
    ("a" :> "A") @@ ("b" :> "B") @@ ("c" :> "C") @@ ("d" :> "D") @@ ("e" :> "E")
    @@ ("f" :> "F") @@ ("g" :> "G") @@ ("h" :> "H") @@ ("i" :> "I") @@ ("j" :> "J")
    @@ ("k" :> "K") @@ ("l" :> "L") @@ ("m" :> "M") @@ ("n" :> "N") @@ ("o" :> "O")
    @@ ("p" :> "P") @@ ("q" :> "Q") @@ ("r" :> "R") @@ ("s" :> "S") @@ ("t" :> "T")
    @@ ("u" :> "U") @@ ("v" :> "V") @@ ("w" :> "W") @@ ("x" :> "X") @@ ("y" :> "Y")
    @@ ("z" :> "Z")

\* int() of a decimal digit
DigitValue ==
    ("0" :> 0) @@ ("1" :> 1) @@ ("2" :> 2) @@ ("3" :> 3) @@ ("4" :> 4)
    @@ ("5" :> 5) @@ ("6" :> 6) @@ ("7" :> 7) @@ ("8" :> 8) @@ ("9" :> 9)

LowerChar(c) == IF c \in DOMAIN ToLower THEN ToLower[c] ELSE c

UpperChar(c) == IF c \in DOMAIN ToUpper THEN ToUpper[c] ELSE c

IsAlpha(c) == c \in DOMAIN ToLower \/ c \in DOMAIN ToUpper

IsDigitChar(c) == c \in DOMAIN DigitValue

IsSpace(c) == c = " "

\* str.lower()
Lower(s) == List([i \in 1..Len(s) |-> LowerChar(s[i])])

\* str.title(): a letter that follows a non-letter is upper-cased, any other lower-cased
Title(s) ==
    List([i \in 1..Len(s) |->
            IF i = 1 \/ ~IsAlpha(s[i - 1]) THEN UpperChar(s[i]) ELSE LowerChar(s[i])])

\* str.strip()
Strip(s) ==
    LET keep == {i \in 1..Len(s) : ~IsSpace(s[i])}
    IN  IF keep = {} THEN <<>>
        ELSE LET lo == CHOOSE i \in keep : \A j \in keep : i <= j
                 hi == CHOOSE i \in keep : \A j \in keep : j <= i
             IN  SubSeq(s, lo, hi)

\* sub in s
Contains(s, sub) ==
    \E k \in 0..(Len(s) - Len(sub)) : SubSeq(s, k + 1, k + Len(sub)) = sub

\* str.isdigit()
IsDigit(s) == Len(s) > 0 /\ \A i \in 1..Len(s) : IsDigitChar(s[i])

RECURSIVE ToInt(_)
\* int(s) for a string of digits
ToInt(s) ==
    IF Len(s) = 0 THEN 0
    ELSE 10 * ToInt(SubSeq(s, 1, Len(s) - 1)) + DigitValue[s[Len(s)]]

\* float(s), in hundredths, for the decimal notations "d+", "d+.d" and "d+.dd";
\* None is the ValueError float() raises on the other lines entered here.
ToFloat(s) ==
    LET dots == {i \in 1..Len(s) : s[i] = "."}
    IN  IF dots = {} THEN (IF IsDigit(s) THEN Some(100 * ToInt(s)) ELSE None)
        ELSE IF Cardinality(dots) > 1 THEN None
        ELSE LET d    == The(dots)
                 ip   == SubSeq(s, 1, d - 1)
                 fp   == SubSeq(s, d + 1, Len(s))
             IN  IF ~IsDigit(ip) \/ ~IsDigit(fp) \/ Len(fp) > 2 THEN None
                 ELSE Some(100 * ToInt(ip)
                           + (IF Len(fp) = 1 THEN 10 * ToInt(fp) ELSE ToInt(fp)))

(* ---------------------------- timestamps ------------------------------ *)

\* timedelta(hours=1), in ticks of the clock
Hour == 1

\* datetime.isoformat(), and the same with "Z" appended
IsoFormat(t) == [t |-> t, z |-> FALSE]

IsoFormatZ(t) == [t |-> t, z |-> TRUE]

\* the instant a formatted timestamp denotes
Instant(ts) == ts.t

(* -------------------------------- JSON -------------------------------- *)

\* What json.dump writes for a value of each Python type, and what json.load
\* makes of it.  A document is an array (sequence) of objects (records).
JNull == [j |-> "null", v |-> ""]

JStr(s) == [j |-> "string", v |-> s]

JNum(n) == [j |-> "number", v |-> n]

JBool(b) == [j |-> "literal", v |-> IF b THEN "true" ELSE "false"]

JOpt(o) == IF o = None THEN JNull ELSE JStr(The(o))

UnJ(x) == IF x.j = "literal" THEN x.v = "true" ELSE x.v

UnJOpt(x) == IF x.j = "null" THEN None ELSE Some(x.v)

DumpReview(r) ==
    [rating |-> JNum(r.rating), comment |-> JStr(r.comment), ts |-> JStr(r.ts)]

LoadReview(o) ==
    [rating |-> UnJ(o.rating), comment |-> UnJ(o.comment), ts |-> UnJ(o.ts)]

DumpProvider(p) ==
    [id |-> JStr(p.id), name |-> JStr(p.name), service |-> JStr(p.service),
     language |-> JStr(p.language), rating |-> JNum(p.rating),
     reviews |-> List([i \in 1..Len(p.reviews) |-> DumpReview(p.reviews[i])]),
     available |-> JBool(p.available), next_available |-> JOpt(p.next_available),
     location |-> [lat |-> JNum(p.location.lat), lng |-> JNum(p.location.lng)]]

LoadProvider(o) ==
    [id |-> UnJ(o.id), name |-> UnJ(o.name), service |-> UnJ(o.service),
     language |-> UnJ(o.language), rating |-> UnJ(o.rating),
     reviews |-> List([i \in 1..Len(o.reviews) |-> LoadReview(o.reviews[i])]),
     available |-> UnJ(o.available), next_available |-> UnJOpt(o.next_available),
     location |-> [lat |-> UnJ(o.location.lat), lng |-> UnJ(o.location.lng)]]

DumpEntry(h) == [ts |-> JStr(h.ts), status |-> JStr(h.status)]

LoadEntry(o) == [ts |-> UnJ(o.ts), status |-> UnJ(o.status)]

DumpBooking(b) ==
    [id |-> JStr(b.id), tourist |-> JStr(b.tourist),
     provider_id |-> JStr(b.provider_id), provider_name |-> JStr(b.provider_name),
     service |-> JStr(b.service), language |-> JStr(b.language),
     phone |-> JOpt(b.phone), status |-> JStr(b.status),
     created_at |-> JStr(b.created_at),
     history |-> List([i \in 1..Len(b.history) |-> DumpEntry(b.history[i])])]

LoadBooking(o) ==
    [id |-> UnJ(o.id), tourist |-> UnJ(o.tourist),
     provider_id |-> UnJ(o.provider_id), provider_name |-> UnJ(o.provider_name),
     service |-> UnJ(o.service), language |-> UnJ(o.language),
     phone |-> UnJOpt(o.phone), status |-> UnJ(o.status),
     created_at |-> UnJ(o.created_at),
     history |-> List([i \in 1..Len(o.history) |-> LoadEntry(o.history[i])])]

DumpProviders(ps) == List([i \in 1..Len(ps) |-> DumpProvider(ps[i])])

LoadProviders(doc) == List([i \in 1..Len(doc) |-> LoadProvider(doc[i])])

DumpBookings(bs) == List([i \in 1..Len(bs) |-> DumpBooking(bs[i])])

LoadBookings(doc) == List([i \in 1..Len(doc) |-> LoadBooking(doc[i])])

(* ------------------------------ storage ------------------------------- *)

PROVIDERS_FILE == "data/providers.json"

BOOKINGS_FILE == "data/bookings.json"

Paths == {PROVIDERS_FILE, BOOKINGS_FILE}

\* A path with no file behind it.
NoFile == [exists |-> FALSE, doc |-> <<>>]

\* json.dump / json.load of the collection a path holds
JsonDump(path, data) ==
    IF path = PROVIDERS_FILE THEN DumpProviders(data) ELSE DumpBookings(data)

JsonLoad(path, doc) ==
    IF path = PROVIDERS_FILE THEN LoadProviders(doc) ELSE LoadBookings(doc)

\* load_json: the parsed document when the file exists, else the default.
load_json(d, path, default) ==
    IF d[path].exists THEN JsonLoad(path, d[path].doc) ELSE default

\* save_json: the disk after the whole document is written over the file.
save_json(d, path, data) ==
    [d EXCEPT ![path] = [exists |-> TRUE, doc |-> JsonDump(path, data)]]

(* ------------------------------- data --------------------------------- *)

default_providers ==
    << [id |-> "p1", name |-> "Ravi",
        service |-> <<"T","a","x","i"," ","D","r","i","v","e","r">>,
        language |-> <<"T","e","l","u","g","u">>, rating |-> 480,
        reviews |-> <<>>, available |-> TRUE, next_available |-> None,
        location |-> [lat |-> 1745, lng |-> 7845]],
       [id |-> "p2", name |-> "Maria",
        service |-> <<"T","o","u","r"," ","G","u","i","d","e">>,
        language |-> <<"F","r","e","n","c","h">>, rating |-> 490,
        reviews |-> <<>>, available |-> TRUE, next_available |-> None,
        location |-> [lat |-> 4885, lng |-> 235]],
       [id |-> "p3", name |-> "Carlos",
        service |-> <<"C","i","t","y"," ","T","o","u","r">>,
        language |-> <<"S","p","a","n","i","s","h">>, rating |-> 470,
        reviews |-> <<>>, available |-> TRUE, next_available |-> None,
        location |-> [lat |-> 1943, lng |-> -9913]] >>

\* Find as it would be if the loop variable were used after the loop: when no
\* provider has the id, the last provider is taken.
FindOrLast(ps, provider_id) ==
    LET hits == {i \in 1..Len(ps) : ps[i].id = provider_id}
    IN  IF hits = {} THEN Len(ps) ELSE CHOOSE i \in hits : \A j \in hits : i <= j

\* position of the first provider with this id, 0 when there is none
\* (for p in providers: if p["id"] == provider_id)
Find(ps, provider_id) ==
    LET hits == {i \in 1..Len(ps) : ps[i].id = provider_id}
    IN  IF hits = {} THEN 0 ELSE CHOOSE i \in hits : \A j \in hits : i <= j

(* ------------------------------ matching ------------------------------ *)

\* a non-empty string (Python truthiness of an optional string)
Truthy(o) == o # None /\ The(o) # <<>>

\* Score without the +100 of a language match.
ScoreWithoutBonus(p, lang) ==
    p.rating
    + (IF Len(p.reviews) > 0 THEN Min(Len(p.reviews) * 10, 100) ELSE 0)

\* the score match_providers gives a provider, in hundredths
Score(p, lang) ==
    p.rating
    + (IF Truthy(lang) /\ Title(Strip(p.language)) = The(lang) THEN 10000 ELSE 0)
    + (IF Len(p.reviews) > 0 THEN Min(Len(p.reviews) * 10, 100) ELSE 0)

RECURSIVE SortDesc(_, _)
\* list.sort(key=score, reverse=True) of a list of positions: stable, so among
\* equal scores the earlier position stays first.  `key` maps position to score.
SortDesc(idx, key) ==
    IF Len(idx) <= 1 THEN idx
    ELSE LET rest == SortDesc(Tail(idx), key)
             x    == Head(idx)
             \* x goes before the first element of rest scoring no more than it
             worse == {k \in 1..Len(rest) : key[rest[k]] <= key[x]}
             at   == IF worse = {} THEN Len(rest) + 1
                     ELSE CHOOSE k \in worse : \A m \in worse : k <= m
         IN  SubSeq(rest, 1, at - 1) \o <<x>> \o SubSeq(rest, at, Len(rest))

\* Candidates without the second filter: only_available is ignored.
CandidatesAnyAvailability(ps, service_filter, only_available) ==
    LET all == List([i \in 1..Len(ps) |-> i])
    IN  SelectSeq(all, LAMBDA i :
            service_filter = None
            \/ Contains(Lower(ps[i].service), Lower(The(service_filter))))

\* The providers match_providers keeps, as positions in ps: those whose
\* service contains the filter, case ignored, and, when only the available
\* are wanted, those that are available.
Candidates(ps, service_filter, only_available) ==
    LET all == List([i \in 1..Len(ps) |-> i])
        byService == SelectSeq(all, LAMBDA i :
                        service_filter = None
                        \/ Contains(Lower(ps[i].service), Lower(The(service_filter))))
    IN  IF only_available
        THEN SelectSeq(byService, LAMBDA i : ps[i].available)
        ELSE byService

\* match_providers.  The code returns the provider dicts themselves, which its
\* callers then change in place; the result here is their positions in ps.
match_providers(ps, preferred_language, service_filter, only_available) ==
    LET lang == IF Truthy(preferred_language)
                THEN Some(Title(Strip(The(preferred_language)))) ELSE None
        key  == List([i \in 1..Len(ps) |-> Score(ps[i], lang)])
    IN  SortDesc(Candidates(ps, service_filter, only_available), key)

(* --------------------------- bookings, reviews ------------------------ *)

\* str(uuid.uuid4())[:8]: the first of the five groups of a UUID's text
ShortId(uuid) == uuid[1]

\* NewBooking with a booking that starts out unconfirmed.
NewBookingPending(tourist, provider, language, phone, uuid, t) ==
    [id |-> ShortId(uuid),
     tourist |-> tourist,
     provider_id |-> provider.id,
     provider_name |-> provider.name,
     service |-> provider.service,
     language |-> IF Truthy(language) THEN The(language) ELSE provider.language,
     phone |-> phone,
     status |-> "Pending",
     created_at |-> IsoFormatZ(t),
     history |-> <<[ts |-> IsoFormatZ(t), status |-> "Pending"]>>]

\* create_booking's new record; uuid is what uuid4() returned, t the clock
NewBooking(tourist, provider, language, phone, uuid, t) ==
    [id |-> ShortId(uuid),
     tourist |-> tourist,
     provider_id |-> provider.id,
     provider_name |-> provider.name,
     service |-> provider.service,
     language |-> IF Truthy(language) THEN The(language) ELSE provider.language,
     phone |-> phone,
     status |-> "Confirmed",
     created_at |-> IsoFormatZ(t),
     history |-> <<[ts |-> IsoFormatZ(t), status |-> "Confirmed"]>>]

\* update_provider_availability on the list ps: the list afterwards
SetAvailability(ps, provider_id, available, next_available) ==
    LET i == Find(ps, provider_id)
    IN  IF i = 0 THEN ps
        ELSE [ps EXCEPT ![i].available = available,
                        ![i].next_available = next_available]

\* Round2 with a quotient halfway between two hundredths rounded up, as a
\* decimal half-up rounding would.
Round2HalfUp(total, n) ==
    (2 * total + n) \div (2 * n)

\* round(total / n, 2) for a total in hundredths: the nearest hundredth.  With
\* ratings that are multiples of 0.25 and fewer than 10 of them, a quotient
\* halfway between two hundredths is a multiple of 1/8, which a float holds
\* exactly, and round() then takes the even hundredth.
Round2(total, n) ==
    LET q == total \div n
        r == total % n
    IN  IF 2 * r < n THEN q
        ELSE IF 2 * r > n THEN q + 1
        ELSE IF q % 2 = 0 THEN q ELSE q + 1

RECURSIVE SumRatings(_)
\* sum(r["rating"] for r in reviews)
SumRatings(reviews) ==
    IF Len(reviews) = 0 THEN 0
    ELSE reviews[1].rating + SumRatings(Tail(reviews))

\* add_review on the list ps: the list afterwards
WithReview(ps, provider_id, rating, comment, t) ==
    LET i == Find(ps, provider_id)
    IN  IF i = 0 THEN ps
        ELSE LET reviews == Append(ps[i].reviews,
                                   [rating |-> rating, comment |-> comment,
                                    ts |-> IsoFormat(t)])
             IN  [ps EXCEPT ![i].reviews = reviews,
                            ![i].rating = Round2(SumRatings(reviews), Len(reviews))]

(* ------------------------------- inputs ------------------------------- *)

\* What uuid4() may return, as the five groups of its text.  Two different
\* UUIDs can agree on the first group.
Uuids ==
    { <<"3f2a9c1e", "7b1d", "4e5f", "8a9b", "0c1d2e3f4a5b">>,
      <<"3f2a9c1e", "02c4", "4b7a", "9d3e", "6f5a4b3c2d1e">>,
      <<"b7d0e4a2", "5c6f", "4a1b", "b2c3", "d4e5f6a7b8c9">> }

\* Arguments of direct calls to the module's functions.
Tourists == { <<"A","s","h","a">> }

Phones == { Some(<<"5","5","5">>) }

BookingLanguages == { None }

\* provider ids passed to the functions: a seeded one and one that is unknown
ProviderIds == { "p1", "p9" }

\* ratings passed to add_review: 4.25, 5.0 and the out-of-range 200.0
Ratings == { 425, 500, 20000 }

Comments == { "great" }

\* preferred languages and service filters match_providers is asked about
Languages ==
    { None, Some(<<" ","f","R","E","N","C","H"," ">>), Some(<<"t","e","l","u","g","u">>),
      Some(<<"G","e","r","m","a","n">>) }

ServiceFilters ==
    { None, Some(<<"T","O","U","R">>), Some(<<"t","a","x","i">>), Some(<<"s","p","a">>) }

\* Lines typed at the console prompts.
NameLines == { <<>>, <<" ","A","s","h","a">> }

PhoneLines == { <<"5","5","5">> }

LanguageLines == { <<>>, <<" ","f","R","E","N","C","H"," ">> }

ServiceLines == { <<>>, <<"T","a","x","i">> }

ChoiceLines == { <<"C">>, <<"x">>, <<"1">>, <<"9">> }

SelectLines == { <<"x">>, <<"1">>, <<"2">>, <<"9">> }

YesNoLines == { <<"Y">>, <<"n">> }

RatingLines == { <<"4",".","2","5">>, <<"2","0","0">>, <<"a","b","c">> }

MenuLines == { <<"2">>, <<"4">> }

\* input(...).strip() or None
OrNone(s) == IF s = <<>> THEN None ELSE Some(s)

(* ------------------------------- state -------------------------------- *)

\* call: the operation whose completion produced the current state, the
\* arguments the properties refer to, and what it returned.
Call(op, arg, ret) == [op |-> op, arg |-> arg, ret |-> ret]

\* An operation that writes a store completes: the stores and the disk become
\* these.  steps counts such operations and the ticks of the clock.
Becomes(c, ps, bs, d) ==
    /\ steps < MaxSteps
    /\ providers' = ps
    /\ bookings' = bs
    /\ disk' = d
    /\ call' = c
    /\ steps' = steps + 1
    /\ UNCHANGED now

\* An operation that writes nothing completes.
Returns(c) ==
    /\ call' = c
    /\ UNCHANGED <<providers, bookings, disk, now, steps>>

\* Module load followed by the two saves of __main__, from the disk d.
Startup(d) ==
    LET ps == load_json(d, PROVIDERS_FILE, default_providers)
        bs == load_json(d, BOOKINGS_FILE, <<>>)
    IN  [providers |-> ps, bookings |-> bs,
         disk |-> save_json(save_json(d, PROVIDERS_FILE, ps), BOOKINGS_FILE, bs)]

\* First run: an empty data directory.
Init ==
    LET s == Startup([path \in Paths |-> NoFile])
    IN  /\ providers = s.providers
        /\ bookings = s.bookings
        /\ disk = s.disk
        /\ now = 0
        /\ call = Call("main", <<>>, None)
        /\ steps = 0

\* The process exits and is started again on the same data directory; the
\* saves of __main__ rewrite what the files hold and are not counted in steps.
Restart ==
    \E s \in {Startup(disk)} :
      /\ providers' = s.providers
      /\ bookings' = s.bookings
      /\ disk' = s.disk
      /\ call' = Call("main", <<>>, None)
      /\ UNCHANGED <<now, steps>>

\* The clock advances.
Tick ==
    /\ steps < MaxSteps
    /\ now' = now + 1
    /\ steps' = steps + 1
    /\ call' = Call("tick", <<>>, None)
    /\ UNCHANGED <<providers, bookings, disk>>

(* ------------------------ the module's functions ---------------------- *)
(* In the actions, \E x \in {e} names the value e once, as an assignment   *)
(* to a local variable does.                                               *)

\* CreateBooking with the two last statements exchanged: the store is saved
\* before the booking is appended.
CreateBookingSaveFirst(tourist, provider_id, language, phone, uuid) ==
    /\ steps < MaxSteps
    /\ \E provider \in {providers[Find(providers, provider_id)]} :
       \E booking \in {NewBooking(tourist, provider, language, phone, uuid, now)} :
         Becomes(Call("create_booking", <<provider_id>>, booking),
                 providers, Append(bookings, booking),
                 save_json(disk, BOOKINGS_FILE, bookings))

\* create_booking(tourist, provider, language, phone), provider a listed one
CreateBooking(tourist, provider_id, language, phone, uuid) ==
    /\ steps < MaxSteps
    /\ \E provider \in {providers[Find(providers, provider_id)]} :
       \E booking \in {NewBooking(tourist, provider, language, phone, uuid, now)} :
       \E bs \in {Append(bookings, booking)} :
         Becomes(Call("create_booking", <<provider_id>>, booking),
                 providers, bs, save_json(disk, BOOKINGS_FILE, bs))

UpdateProviderAvailability(provider_id, available, next_available) ==
    IF Find(providers, provider_id) = 0
    THEN Returns(Call("update_provider_availability", <<provider_id>>, FALSE))
    ELSE /\ steps < MaxSteps
         /\ \E ps \in {SetAvailability(providers, provider_id, available, next_available)} :
              Becomes(Call("update_provider_availability", <<provider_id>>, TRUE),
                      ps, bookings, save_json(disk, PROVIDERS_FILE, ps))

\* AddReview without its save_json.
AddReviewUnsaved(provider_id, rating, comment) ==
    \E i \in {Find(providers, provider_id)} :
      IF i = 0
      THEN Returns(Call("add_review", <<provider_id>>, None))
      ELSE /\ steps < MaxSteps
           /\ \E ps \in {WithReview(providers, provider_id, rating, comment, now)} :
                Becomes(Call("add_review", <<provider_id>>, Some(ps[i].rating)),
                        ps, bookings, disk)

AddReview(provider_id, rating, comment) ==
    \E i \in {Find(providers, provider_id)} :
      IF i = 0
      THEN Returns(Call("add_review", <<provider_id>>, None))
      ELSE /\ steps < MaxSteps
           /\ \E ps \in {WithReview(providers, provider_id, rating, comment, now)} :
                Becomes(Call("add_review", <<provider_id>>, Some(ps[i].rating)),
                        ps, bookings, save_json(disk, PROVIDERS_FILE, ps))

(* --------------------------- console flows ---------------------------- *)

\* A console flow returns nothing; what it printed is not state.
Ends(op, ps, bs, d) == Becomes(Call(op, <<>>, None), ps, bs, d)

Leaves(op) == Returns(Call(op, <<>>, None))

\* book_service_flow from the point a provider is chosen: ps and d are the
\* provider list and the disk after the scheduling branch, i the position of
\* the chosen provider.  The prompt for the map opens a browser and changes
\* nothing here.
BookChosen(name, phone, pref_lang, i, ps, d) ==
    /\ steps < MaxSteps
    /\ \E uuid \in Uuids :
       \E booking \in {NewBooking(name, ps[i], pref_lang, phone, uuid, now)} :
       \E bs \in {Append(bookings, booking)} :
       \E d2 \in {save_json(d, BOOKINGS_FILE, bs)} :
       \E complete \in YesNoLines :
         IF Lower(Strip(complete)) # <<"y">>
         THEN Ends("book_service_flow", ps, bs, d2)
         ELSE \E rating \in RatingLines :
              \E r \in {ToFloat(Strip(rating))} :
                IF r = None
                THEN Ends("book_service_flow", ps, bs, d2)
                ELSE IF 100 <= The(r) /\ The(r) <= 500
                THEN \E comment \in Comments :
                     \E ps2 \in {WithReview(ps, ps[i].id, The(r), comment, now)} :
                       Ends("book_service_flow", ps2, bs,
                            save_json(d2, PROVIDERS_FILE, ps2))
                ELSE Ends("book_service_flow", ps, bs, d2)

book_service_flow ==
    \E name_line \in NameLines :
    \E name \in {Strip(name_line)} :
      IF name = <<>>
      THEN Leaves("book_service_flow")
      ELSE \E phone_line \in PhoneLines, lang_line \in LanguageLines,
              service_line \in ServiceLines :
           \E phone \in {OrNone(Strip(phone_line))} :
           \E pref_lang \in {OrNone(Title(Strip(lang_line)))} :
           \E service_want \in {OrNone(Lower(Strip(service_line)))} :
           \E immediate \in {match_providers(providers, pref_lang, service_want, TRUE)} :
           \E matched \in {IF immediate = <<>>
                           THEN match_providers(providers, pref_lang, service_want, FALSE)
                           ELSE immediate} :
           \E choice_line \in ChoiceLines :
           \E choice \in {Strip(choice_line)} :
             IF Lower(choice) = <<"c">>
             THEN Leaves("book_service_flow")
             ELSE IF ~IsDigit(choice)
             THEN Leaves("book_service_flow")
             ELSE \E idx \in {ToInt(choice) - 1} :
               IF ~(0 <= idx /\ idx < Len(matched))
               THEN Leaves("book_service_flow")
               ELSE \E i \in {matched[idx + 1]} :
                 IF providers[i].available
                 THEN BookChosen(name, phone, pref_lang, i, providers, disk)
                 ELSE \E schedule \in YesNoLines :
                   IF Lower(Strip(schedule)) # <<"y">>
                   THEN Leaves("book_service_flow")
                   ELSE /\ steps < MaxSteps
                        /\ \E ps \in {[providers EXCEPT
                                         ![i].next_available = Some(IsoFormatZ(now + Hour)),
                                         ![i].available = FALSE]} :
                             BookChosen(name, phone, pref_lang, i, ps,
                                        save_json(disk, PROVIDERS_FILE, ps))

\* ToggledNextAvailable with the hour of turnaround left out.
ToggledNextAvailableNow(new_avail, t) ==
    IF ~new_avail THEN Some(IsoFormatZ(t)) ELSE None

\* ToggledNextAvailable with the timestamp computed for both directions.
ToggledNextAvailableAlways(new_avail, t) ==
    Some(IsoFormatZ(t + Hour))

\* the next_available an admin toggle passes with the new availability
ToggledNextAvailable(new_avail, t) ==
    IF ~new_avail THEN Some(IsoFormatZ(t + Hour)) ELSE None

admin_menu ==
    \E choice_line \in MenuLines :
    \E choice \in {Strip(choice_line)} :
      IF choice # <<"2">>
      THEN Leaves("admin_menu")
      ELSE \E sel_line \in SelectLines :
           \E sel \in {Strip(sel_line)} :
             IF ~IsDigit(sel)
             THEN Leaves("admin_menu")
             ELSE \E idx \in {ToInt(sel) - 1} :
               IF ~(0 <= idx /\ idx < Len(providers))
               THEN Leaves("admin_menu")
               ELSE /\ steps < MaxSteps
                    /\ \E p \in {providers[idx + 1]} :
                       \E new_avail \in {~p.available} :
                       \E ps \in {SetAvailability(providers, p.id, new_avail,
                                                  ToggledNextAvailable(new_avail, now))} :
                         Ends("admin_menu", ps, bookings,
                              save_json(disk, PROVIDERS_FILE, ps))

(* --------------------------- specifications --------------------------- *)

\* The console program: its menu flows, restarts and the passing of time.
ConsoleNext ==
    \/ book_service_flow
    \/ admin_menu
    \/ Restart
    \/ Tick

ConsoleSpec == Init /\ [][ConsoleNext]_vars

\* The module's functions called directly, with arguments of their whole
\* domain and not only those the console passes.
LibraryNext ==
    \/ \E t \in Tourists, id \in ProviderIds \ {"p9"}, l \in BookingLanguages,
          ph \in Phones, u \in Uuids : CreateBooking(t, id, l, ph, u)
    \/ \E id \in ProviderIds, a \in BOOLEAN,
          n \in {None, Some(IsoFormatZ(now + Hour))} : UpdateProviderAvailability(id, a, n)
    \/ \E id \in ProviderIds, r \in Ratings, c \in Comments : AddReview(id, r, c)
    \/ Restart
    \/ Tick

LibrarySpec == Init /\ [][LibraryNext]_vars

\* The console program and the library calls together.
Next ==
    \/ book_service_flow
    \/ admin_menu
    \/ Restart
    \/ Tick
    \/ \E t \in Tourists, id \in ProviderIds \ {"p9"}, l \in BookingLanguages,
          ph \in Phones, u \in Uuids : CreateBooking(t, id, l, ph, u)
    \/ \E id \in ProviderIds, a \in BOOLEAN,
          n \in {None, Some(IsoFormatZ(now + Hour))} : UpdateProviderAvailability(id, a, n)
    \/ \E id \in ProviderIds, r \in Ratings, c \in Comments : AddReview(id, r, c)

Spec == Init /\ [][Next]_vars

(* ----------------------------- properties ----------------------------- *)

Last(s) == s[Len(s)]

IsPrefix(a, b) == Len(a) <= Len(b) /\ SubSeq(b, 1, Len(a)) = a

\* the provider list holds a provider with this id
KnownId(provider_id) == \E i \in 1..Len(providers) : providers[i].id = provider_id

\* sub occurs in s when the case of letters is ignored
ContainsIgnoreCase(s, sub) ==
    \E k \in 0..(Len(s) - Len(sub)) :
      \A j \in 1..Len(sub) : LowerChar(s[k + j]) = LowerChar(sub[j])

\* two language labels are equal up to case and surrounding spaces
SameLanguage(a, b) == Lower(Strip(a)) = Lower(Strip(b))

\* C1: every provider's rating is the mean of the ratings of its reviews
\* rounded to two decimals (the nearest hundredth, the even one when the mean
\* is halfway, as round() gives); a provider without reviews has the rating
\* of the seed list.
RatingIsRoundedMean ==
    \A i \in 1..Len(providers) :
      LET p == providers[i]
          n == Len(p.reviews)
          total == SumRatings(p.reviews)
          off == 2 * Abs(p.rating * n - total)
      IN  IF n = 0
          THEN \E k \in 1..Len(default_providers) :
                 /\ default_providers[k].id = p.id
                 /\ default_providers[k].rating = p.rating
          ELSE /\ off <= n
               /\ off = n => p.rating % 2 = 0

\* C1, its case: add_review has just given a provider its second review, the
\* two are 4.25 and 5.0, and the rating is 4.62.
RoundedMeanOfTwoReviews ==
    /\ call.op = "add_review"
    /\ \E i \in 1..Len(providers) :
         /\ Len(providers[i].reviews) = 2
         /\ SumRatings(providers[i].reviews) = 925
         /\ providers[i].rating = 462
         /\ call.ret = Some(462)

\* C2: whatever the language, the filter and the flag, every provider
\* match_providers returns has a service containing the filter (case ignored)
\* when one is given, and is available when only the available are asked for.
MatchesPassFilters ==
    \A l \in Languages, f \in ServiceFilters, a \in BOOLEAN :
      \A m \in {match_providers(providers, l, f, a)} :
          \A x \in 1..Len(m) :
            /\ f # None => ContainsIgnoreCase(providers[m[x]].service, The(f))
            /\ a => providers[m[x]].available

\* C2, its case: update_provider_availability has made the taxi driver busy;
\* match_providers leaves it out of the available, returns nothing for "taxi"
\* among the available and the driver when the busy are wanted too, and for
\* "TOUR" returns the tour guide and the city tour.
BusyProviderFilteredOut ==
    /\ call.op = "update_provider_availability"
    /\ ~providers[1].available
    /\ providers[2].available
    /\ match_providers(providers, None, None, TRUE) = <<2, 3>>
    /\ match_providers(providers, None, Some(<<"t","a","x","i">>), TRUE) = <<>>
    /\ match_providers(providers, None, Some(<<"t","a","x","i">>), FALSE) = <<1>>
    /\ match_providers(providers, None, Some(<<"T","O","U","R">>), FALSE) = <<2, 3>>

\* C3 as stated: with a preferred language, a returned provider of that
\* language comes before every returned provider of another language,
\* whatever their ratings and reviews.
LanguageMatchAlwaysFirst ==
    \A l \in Languages \ {None}, f \in ServiceFilters, a \in BOOLEAN :
      \A m \in {match_providers(providers, l, f, a)} :
          \A x, y \in 1..Len(m) :
            (/\ SameLanguage(providers[m[x]].language, The(l))
             /\ ~SameLanguage(providers[m[y]].language, The(l)))
            => x < y

\* C3 as amended: a returned provider of the preferred language comes before
\* every returned provider of another language whose rating exceeds its own
\* by less than 99.
LanguageMatchFirstWithinBonus ==
    \A l \in Languages \ {None}, f \in ServiceFilters, a \in BOOLEAN :
      \A m \in {match_providers(providers, l, f, a)} :
          \A x, y \in 1..Len(m) :
            (/\ SameLanguage(providers[m[x]].language, The(l))
             /\ ~SameLanguage(providers[m[y]].language, The(l))
             /\ providers[m[y]].rating - providers[m[x]].rating < 9900)
            => x < y

\* C3, its case: a review has lowered the Telugu speaker's rating below the
\* others', and asked for "telugu" match_providers still lists that provider
\* first.
LowerRatedMatchFirst ==
    /\ call.op = "add_review"
    /\ Len(providers[1].reviews) > 0
    /\ providers[1].rating < providers[3].rating
    /\ match_providers(providers, Some(<<"t","e","l","u","g","u">>), None, TRUE)
         = <<1, 2, 3>>

\* the fields of a booking that C4 compares
SameBooking(a, b) ==
    /\ a.id = b.id
    /\ a.tourist = b.tourist
    /\ a.provider_id = b.provider_id
    /\ a.provider_name = b.provider_name
    /\ a.service = b.service

\* C4: when create_booking completes, the booking store read back from its
\* file ends with a booking that has the id, tourist, provider_id,
\* provider_name and service of the returned one, with status Confirmed and
\* one history entry, itself Confirmed; before it come, unchanged, the
\* bookings the file held before the call.
StoredBookingMatchesReturned ==
    [][call'.op = "create_booking" =>
         LET before == load_json(disk, BOOKINGS_FILE, <<>>)
             stored == load_json(disk', BOOKINGS_FILE, <<>>)
         IN  /\ Len(stored) = Len(before) + 1
             /\ IsPrefix(before, stored)
             /\ SameBooking(Last(stored), call'.ret)
             /\ Last(stored).status = "Confirmed"
             /\ Len(Last(stored).history) = 1
             /\ Last(stored).history[1].status = "Confirmed"]_vars

\* C4, its case: create_booking has stored a second booking after a first.
SecondBookingStored ==
    /\ call.op = "create_booking"
    /\ Len(bookings) = 2
    /\ Len(load_json(disk, BOOKINGS_FILE, <<>>)) = 2
    /\ load_json(disk, BOOKINGS_FILE, <<>>)[2].id = call.ret.id

\* what C5 asks of a change of availability of provider i made at time t
NextAvailableFollows(i, t) ==
    /\ (providers[i].available /\ ~providers'[i].available) =>
          /\ providers'[i].next_available # None
          /\ Instant(The(providers'[i].next_available)) > t
    /\ (~providers[i].available /\ providers'[i].available) =>
          providers'[i].next_available = None

\* C5 as stated: a call of update_provider_availability that makes a provider
\* unavailable leaves it a next_available later than the time of the call,
\* and one that makes it available again leaves next_available None.
UpdateSetsNextAvailable ==
    [][(call'.op = "update_provider_availability" /\ call'.ret = TRUE) =>
         \A i \in 1..Len(providers) : NextAvailableFollows(i, now)]_vars

\* C5 as amended: the toggle of the admin menu, which passes the time one
\* hour ahead to update_provider_availability when it makes a provider
\* unavailable and None when it makes it available, leaves next_available so.
AdminToggleSetsNextAvailable ==
    [][call'.op = "admin_menu" =>
         \A i \in 1..Len(providers) : NextAvailableFollows(i, now)]_vars

\* C5, its case: the admin menu has made a provider unavailable, with a
\* next_available an hour after the present.
AdminToggledBusy ==
    /\ call.op = "admin_menu"
    /\ \E i \in 1..Len(providers) :
         /\ ~providers[i].available
         /\ providers[i].next_available # None
         /\ Instant(The(providers[i].next_available)) = now + Hour

\* C6: update_provider_availability and add_review called with an id no
\* provider has return False and None, and leave the providers, the bookings
\* and both files as they were.
UnknownIdChangesNothing ==
    [][(/\ call'.op \in {"update_provider_availability", "add_review"}
        /\ ~KnownId(call'.arg[1]))
       => /\ call'.op = "update_provider_availability" => call'.ret = FALSE
          /\ call'.op = "add_review" => call'.ret = None
          /\ UNCHANGED <<providers, bookings, disk>>]_vars

\* C6, its case: after some operation changed the stores, add_review was
\* called with the unknown id p9 and returned None.
UnknownIdReviewed ==
    /\ call.op = "add_review"
    /\ call.arg = <<"p9">>
    /\ ~KnownId("p9")
    /\ call.ret = None
    /\ steps > 0

\* C7: between operations each file holds the whole collection it belongs to
\* as it is in memory.
DiskEqualsMemory ==
    /\ disk[PROVIDERS_FILE].exists
    /\ disk[BOOKINGS_FILE].exists
    /\ load_json(disk, PROVIDERS_FILE, <<>>) = providers
    /\ load_json(disk, BOOKINGS_FILE, <<>>) = bookings

\* C7, its case: book_service_flow has scheduled a busy provider for an hour
\* from now and booked it, and the providers file holds that.
BusyProviderScheduled ==
    /\ call.op = "book_service_flow"
    /\ bookings # <<>>
    /\ \E i \in 1..Len(providers) :
         /\ providers[i].id = Last(bookings).provider_id
         /\ ~providers[i].available
         /\ providers[i].next_available = Some(IsoFormatZ(now + Hour))
         /\ LoadProviders(disk[PROVIDERS_FILE].doc)[i].next_available
              = Some(IsoFormatZ(now + Hour))

\* C8: the ids of the bookings in the store are pairwise distinct.
BookingIdsDistinct ==
    \A i, j \in 1..Len(bookings) : bookings[i].id = bookings[j].id => i = j

\* C9: no step removes or changes a booking, the list only grows at its end,
\* and every booking has status Confirmed and one history entry.
BookingsAppendOnly ==
    [][/\ IsPrefix(bookings, bookings')
       /\ \A k \in 1..Len(bookings') :
            /\ bookings'[k].status = "Confirmed"
            /\ Len(bookings'[k].history) = 1]_vars

\* C9, its case: the admin menu has made unavailable a provider that has a
\* booking, and the booking is still the one made.
BookedProviderToggled ==
    /\ call.op = "admin_menu"
    /\ bookings # <<>>
    /\ \E i \in 1..Len(providers) :
         /\ providers[i].id = bookings[1].provider_id
         /\ ~providers[i].available
    /\ bookings[1].status = "Confirmed"

\* C10: through the console flows every provider is available exactly when
\* its next_available is None.
AvailableIffNoNextAvailable ==
    \A i \in 1..Len(providers) :
      providers[i].available <=> providers[i].next_available = None

\* C10, its case: book_service_flow has booked a busy provider, which stays
\* unavailable with a next_available, while the others are available with
\* none.
ScheduledProviderStaysBusy ==
    /\ call.op = "book_service_flow"
    /\ bookings # <<>>
    /\ \E i \in 1..Len(providers) :
         /\ providers[i].id = Last(bookings).provider_id
         /\ ~providers[i].available
         /\ providers[i].next_available # None
         /\ \E j \in 1..Len(providers) :
              providers[j].available /\ providers[j].next_available = None

=============================================================================
